---- MODULE Spec2Model ----
(***************************************************************************)
(* Model of arxiv_chatbot.py: the interactive shell (chat_loop), the       *)
(* conversation driver (process_query), the tool dispatcher (execute_tool) *)
(* and the two tools (search_papers, extract_info) over the papers/        *)
(* directory tree.                                                         *)
(*                                                                         *)
(* A Python str is a sequence of tokens (characters or opaque words), so   *)
(* that strip, lower, replace and join are computed and not assumed.       *)
(***************************************************************************)
EXTENDS Integers, Sequences, FiniteSets, TLC

VARIABLES
    pc,                 \* position of the single thread of control
    messages,           \* process_query: the local list `messages`
    aliased,            \* indexes of messages whose content IS the list object assistant_content
    response,           \* process_query: the local `response` (its .content)
    iter,               \* the list the running `for content in response.content` iterates
    idx,                \* position of that iteration (1-based, next block to visit)
    assistant_content,  \* process_query: the local list `assistant_content`
    process_query,      \* process_query: the local loop flag `process_query`
    fs,                 \* the filesystem under the working directory
    err,                \* the exception in flight ("" when none)
    qn,                 \* number of queries chat_loop has handed to process_query
    calls,              \* history: model calls issued in this session
    nCalls,             \* history: model calls issued by the running process_query
    nExec,              \* history: execute_tool calls made by the running process_query
    responses,          \* history: the model responses the running process_query received
    transcript,         \* history: every message appended by the earlier queries of the session
    failed,             \* history: the exceptions of the consecutive queries that ended in the except clause
    last                \* history: the last call made on the tools directly, outside a chat session

vars == <<pc, messages, aliased, response, iter, idx, assistant_content,
          process_query, fs, err, qn, calls, nCalls, nExec, responses,
          transcript, failed, last>>

-----------------------------------------------------------------------------
(* Bounds of the model *)

MaxBlocks == 2      \* content blocks in one model response
MaxCalls == 2       \* model calls in one session
MaxResults == 1     \* papers the provider yields for one search

-----------------------------------------------------------------------------
(* Strings *)

RECURSIVE Lower(_)
LowerChar(c) ==
    CASE c = "Q" -> "q"
      [] c = "U" -> "u"
      [] c = "I" -> "i"
      [] c = "T" -> "t"
      [] c = "A" -> "a"
      [] OTHER -> c
Lower(s) == IF s = <<>> THEN <<>> ELSE <<LowerChar(Head(s))>> \o Lower(Tail(s))

RECURSIVE LStrip(_)
LStrip(s) == IF s # <<>> /\ Head(s) = " " THEN LStrip(Tail(s)) ELSE s

RECURSIVE RStrip(_)
RStrip(s) ==
    IF s # <<>> /\ s[Len(s)] = " " THEN RStrip(SubSeq(s, 1, Len(s) - 1)) ELSE s

Strip(s) == RStrip(LStrip(s))

RECURSIVE ReplaceSpaces(_)
ReplaceSpaces(s) ==
    IF s = <<>> THEN <<>>
    ELSE <<IF Head(s) = " " THEN "_" ELSE Head(s)>> \o ReplaceSpaces(Tail(s))

RECURSIVE Join(_)
Join(l) ==
    IF l = <<>> THEN <<>>
    ELSE IF Len(l) = 1 THEN l[1]
    ELSE l[1] \o <<", ">> \o Join(Tail(l))

-----------------------------------------------------------------------------
(* Values the environment supplies *)

QUIT == <<"q", "u", "i", "t">>

\* lines the user may type at the prompt
Lines == { <<"h", "i">>, <<" ", "h", "i", " ">>, <<" ", "Q", "u", "I", "T", " ">>, QUIT }

\* topics and paper identifiers the model may put in a tool invocation
Topics == { <<"A", " ", "i">> }
PaperIds == { <<"p1">> }
Records == { "r1" }

\* a paper as the provider yields it: its short id and its metadata record
Papers == [id : PaperIds, rec : Records]

SeqsUpTo(S, n) == UNION { [1..k -> S] : k \in 0..n }

\* what one arxiv search yields: the papers fetched, and whether the provider
\* then fails (the results are fetched lazily, inside the loop of line 67)
ProviderOutcomes == [papers : SeqsUpTo(Papers, MaxResults), fails : BOOLEAN]

-----------------------------------------------------------------------------
(* Filesystem: papers/<key>/papers_info.json *)

PAPER_DIR == <<"papers">>

Normalize(topic) == ReplaceSpaces(Lower(topic))

DirKeys == { Normalize(t) : t \in Topics }

NoDir == [exists |-> FALSE, file |-> "none", info |-> <<>>]

\* a fresh checkout: no papers directory
EmptyFs == [root |-> FALSE, dirs |-> [k \in DirKeys |-> NoDir]]

MakeDirs(f, key) ==
    [root |-> TRUE, dirs |-> [f.dirs EXCEPT ![key].exists = TRUE]]

\* json.load of papers_info.json, with the except clause of lines 63-64
\* a save that starts from an empty mapping whatever the file holds
LoadOrEmpty_Fresh(d) == <<>>

LoadOrEmpty(d) == IF d.exists /\ d.file = "json" THEN d.info ELSE <<>>

\* an entry that a later result with the same identifier does not replace
Put_KeepsOld(info, id, rec) ==
    [k \in (DOMAIN info) \cup {id} |-> IF k \in DOMAIN info THEN info[k] ELSE rec]

Put(info, id, rec) ==
    [k \in (DOMAIN info) \cup {id} |-> IF k = id THEN rec ELSE info[k]]

RECURSIVE Merge(_, _)
Merge(info, papers) ==
    IF papers = <<>> THEN info
    ELSE Merge(Put(info, Head(papers).id, Head(papers).rec), Tail(papers))

\* a write that lands in every topic directory
WriteJson_Everywhere(f, key, info) ==
    [f EXCEPT !.dirs = [k \in DOMAIN f.dirs |->
                          IF f.dirs[k].exists \/ k = key
                          THEN [exists |-> TRUE, file |-> "json", info |-> info]
                          ELSE f.dirs[k]]]

WriteJson(f, key, info) ==
    [f EXCEPT !.dirs[key].file = "json", !.dirs[key].info = info]

\* a search that writes what it has fetched before the provider error leaves
search_papers_PartialWrite(f, topic, prov) ==
    LET key == Normalize(topic)
        f1 == MakeDirs(f, key)
        papers_info == Merge(LoadOrEmpty(f1.dirs[key]), prov.papers)
        paper_ids == [i \in 1..Len(prov.papers) |-> prov.papers[i].id]
    IN  IF prov.fails
        THEN [fs |-> WriteJson(f1, key, papers_info), raised |-> "ProviderError",
              kind |-> "none", val |-> <<>>]
        ELSE [fs |-> WriteJson(f1, key, papers_info), raised |-> "",
              kind |-> "list", val |-> paper_ids]

\* search_papers: the filesystem after the call, the exception raised ("" for
\* none) and the value returned
search_papers(f, topic, prov) ==
    LET key == Normalize(topic)
        f1 == MakeDirs(f, key)
        papers_info == Merge(LoadOrEmpty(f1.dirs[key]), prov.papers)
        paper_ids == [i \in 1..Len(prov.papers) |-> prov.papers[i].id]
    IN  IF prov.fails
        THEN [fs |-> f1, raised |-> "ProviderError", kind |-> "none", val |-> <<>>]
        ELSE [fs |-> WriteJson(f1, key, papers_info), raised |-> "",
              kind |-> "list", val |-> paper_ids]

Dumps(rec) == <<"{", rec, "}">>

NotFoundMessage(paper_id) ==
    <<"There's no saved information related to paper ">> \o paper_id \o <<".">>

\* the orders in which os.listdir may enumerate the topic directories
Orders(f) ==
    { o \in [1..Cardinality(DOMAIN f.dirs) -> DOMAIN f.dirs] :
        \A i, j \in DOMAIN o : i # j => o[i] # o[j] }

\* a scan that gives up at the first directory whose file does not parse
RECURSIVE Scan_AbortsOnBad(_, _, _)
Scan_AbortsOnBad(f, paper_id, order) ==
    IF order = <<>> THEN NotFoundMessage(paper_id)
    ELSE LET d == f.dirs[Head(order)]
         IN  IF d.exists /\ d.file = "bad"
             THEN NotFoundMessage(paper_id)
             ELSE IF d.exists /\ d.file = "json" /\ paper_id \in DOMAIN d.info
                  THEN Dumps(d.info[paper_id])
                  ELSE Scan_AbortsOnBad(f, paper_id, Tail(order))

RECURSIVE Scan(_, _, _)
Scan(f, paper_id, order) ==
    IF order = <<>> THEN NotFoundMessage(paper_id)
    ELSE LET d == f.dirs[Head(order)]
         IN  IF d.exists /\ d.file = "json" /\ paper_id \in DOMAIN d.info
             THEN Dumps(d.info[paper_id])
             ELSE Scan(f, paper_id, Tail(order))

\* a lookup that creates the papers directory when it is absent
extract_info_Creates(f, paper_id, order) ==
    [fs |-> [f EXCEPT !.root = TRUE], raised |-> "", kind |-> "str",
     val |-> Scan(f, paper_id, order)]

\* extract_info under one enumeration order
extract_info(f, paper_id, order) ==
    IF ~f.root
    THEN [fs |-> f, raised |-> "FileNotFoundError", kind |-> "none", val |-> <<>>]
    ELSE [fs |-> f, raised |-> "", kind |-> "str", val |-> Scan(f, paper_id, order)]

-----------------------------------------------------------------------------
(* Tool dispatcher *)

ToolNames == {"search_papers", "extract_info"}

Placeholder == <<"The operation completed but didn't return any results.">>

\* the normalisation of lines 173-179
ToText(kind, val) ==
    CASE kind = "none" -> Placeholder
      [] kind = "list" -> Join(val)
      [] OTHER -> val

\* execute_tool(tool_name, tool_args) with the provider outcome and the
\* directory order the call meets
execute_tool(f, tool_name, tool_args, prov, order) ==
    LET r == CASE tool_name = "search_papers" /\ tool_args.arg = "topic" ->
                    search_papers(f, tool_args.val, prov)
               [] tool_name = "extract_info" /\ tool_args.arg = "paper_id" ->
                    extract_info(f, tool_args.val, order)
               [] tool_name \notin ToolNames ->
                    [fs |-> f, raised |-> "KeyError", kind |-> "none", val |-> <<>>]
               [] OTHER ->
                    [fs |-> f, raised |-> "TypeError", kind |-> "none", val |-> <<>>]
    IN  [fs |-> r.fs, raised |-> r.raised,
         result |-> IF r.raised = "" THEN ToText(r.kind, r.val) ELSE <<>>]

\* no call made on the tools directly; `again` tells that the call before was
\* a successful search_papers with the same arguments
NoCall ==
    [name |-> "", args |-> [arg |-> "", val |-> <<>>],
     prov |-> [papers |-> <<>>, fails |-> FALSE], order |-> <<>>,
     raised |-> "", result |-> <<>>, again |-> FALSE]

-----------------------------------------------------------------------------
(* Content blocks and messages *)

NoInput == [arg |-> "", val |-> <<>>]

\* every content item has the same fields; the ones its type lacks are empty
Item(type) ==
    [type |-> type, text |-> <<>>, id |-> <<>>, name |-> "", input |-> NoInput,
     tool_use_id |-> <<>>, content |-> <<>>]

TextBlock(text) == [Item("text") EXCEPT !.text = text]

ToolUseBlock(id, name, input) ==
    [Item("tool_use") EXCEPT !.id = id, !.name = name, !.input = input]

ToolResultBlock(tool_id, result) ==
    [Item("tool_result") EXCEPT !.tool_use_id = tool_id, !.content = result]

\* {'role': 'user', 'content': query}: the plain string is one item of type "str"
UserMessage(query) ==
    [role |-> "user", content |-> <<[Item("str") EXCEPT !.text = query]>>]

AssistantMessage(blocks) == [role |-> "assistant", content |-> blocks]

ToolResultMessage(tool_id, result) ==
    [role |-> "user", content |-> <<ToolResultBlock(tool_id, result)>>]

\* the blocks the model may emit, before it numbers its tool invocations: a
\* text, a search, the invocation of a tool that is not registered
Shapes ==
    {[name |-> "", input |-> NoInput]}
    \cup {[name |-> "search_papers", input |-> [arg |-> "topic", val |-> t]] : t \in Topics}
    \cup {[name |-> "summarize", input |-> NoInput]}

\* a lookup, which the model emits as the only block of a response
LookupShapes ==
    {[name |-> "extract_info", input |-> [arg |-> "paper_id", val |-> p]] : p \in PaperIds}

AnswerText == <<"answer">>

\* the responses the n-th model call of the session may return: up to
\* MaxBlocks blocks, each tool invocation with an id of its own
ModelResponses(n) ==
    { [k \in 1..Len(s) |->
          IF s[k].name = "" THEN TextBlock(AnswerText)
          ELSE ToolUseBlock(<<n, k>>, s[k].name, s[k].input)] :
      s \in SeqsUpTo(Shapes, MaxBlocks) \cup [1..1 -> LookupShapes] }

SingleText(r) == Len(r) = 1 /\ r[1].type = "text"

-----------------------------------------------------------------------------
(* chat_loop and process_query *)

Init ==
    /\ pc = "prompt"
    /\ messages = <<>>
    /\ aliased = {}
    /\ response = <<>>
    /\ iter = <<>>
    /\ idx = 1
    /\ assistant_content = <<>>
    /\ process_query = FALSE
    /\ fs = EmptyFs
    /\ err = ""
    /\ qn = 0
    /\ calls = 0
    /\ nCalls = 0
    /\ nExec = 0
    /\ responses = <<>>
    /\ transcript = <<>>
    /\ failed = <<>>
    /\ last = NoCall

\* the locals of process_query are gone once it has returned or raised
DropLocals ==
    /\ messages' = <<>>
    /\ aliased' = {}
    /\ response' = <<>>
    /\ iter' = <<>>
    /\ idx' = 1
    /\ assistant_content' = <<>>
    /\ process_query' = FALSE
    /\ nCalls' = 0
    /\ nExec' = 0
    /\ responses' = <<>>

\* assistant_content.append(block): every message that holds this very list
\* shows the new block too
AppendAliased(msgs, al, blocks) ==
    [i \in DOMAIN msgs |-> IF i \in al THEN [msgs[i] EXCEPT !.content = blocks] ELSE msgs[i]]

\* chat_loop, lines 249-252: read a line; 'quit' ends the session, anything
\* else enters process_query (line 189)
ReadQuit ==
    /\ pc = "prompt"
    /\ \E line \in Lines : Lower(Strip(line)) = QUIT
    /\ pc' = "exited"
    /\ UNCHANGED <<last, messages, aliased, response, iter, idx, assistant_content,
                   process_query, fs, err, qn, calls, nCalls, nExec, responses,
                   transcript, failed>>

\* a history kept across queries
StartMessages_Kept(query) == transcript \o <<UserMessage(query)>>

StartMessages(query) == <<UserMessage(query)>>

ReadQuery ==
    /\ pc = "prompt"
    /\ calls < MaxCalls
    /\ \E line \in Lines :
         LET query == Strip(line)
         IN  /\ Lower(query) # QUIT
             /\ messages' = StartMessages(query)
    /\ qn' = qn + 1
    /\ pc' = "call1"
    /\ UNCHANGED <<last, aliased, response, iter, idx, assistant_content, process_query,
                   fs, err, calls, nCalls, nExec, responses, transcript, failed>>

\* lines 191-198: the first model call
FirstModelCall ==
    /\ pc = "call1"
    /\ calls < MaxCalls
    /\ calls' = calls + 1
    /\ nCalls' = nCalls + 1
    /\ \E r \in ModelResponses(calls + 1) :
         /\ response' = r
         /\ responses' = Append(responses, r)
    /\ process_query' = TRUE
    /\ pc' = "while"
    /\ UNCHANGED <<last, messages, aliased, iter, idx, assistant_content, fs, err, qn,
                   nExec, transcript, failed>>

\* a model call that raises (network or API failure)
ModelCallFails ==
    /\ pc \in {"call1", "call2"}
    /\ calls < MaxCalls
    /\ calls' = calls + 1
    /\ nCalls' = nCalls + 1
    /\ err' = "TransportError"
    /\ pc' = "except"
    /\ UNCHANGED <<last, messages, aliased, response, iter, idx, assistant_content,
                   process_query, fs, qn, nExec, responses, transcript, failed>>

\* lines 199-202: the while test; a new assistant_content list and a new
\* iteration over the blocks of the response held now
WhileEnter ==
    /\ pc = "while"
    /\ process_query
    /\ assistant_content' = <<>>
    /\ aliased' = {}
    /\ iter' = response
    /\ idx' = 1
    /\ pc' = "for"
    /\ UNCHANGED <<last, messages, response, process_query, fs, err, qn, calls, nCalls,
                   nExec, responses, transcript, failed>>

\* line 199 with the flag cleared: process_query returns
WhileExit ==
    /\ pc = "while"
    /\ ~process_query
    /\ pc' = "returned"
    /\ UNCHANGED <<last, messages, aliased, response, iter, idx, assistant_content,
                   process_query, fs, err, qn, calls, nCalls, nExec, responses,
                   transcript, failed>>

\* line 202: the iteration is exhausted
ForEnd ==
    /\ pc = "for"
    /\ idx > Len(iter)
    /\ pc' = "while"
    /\ UNCHANGED <<last, messages, aliased, response, iter, idx, assistant_content,
                   process_query, fs, err, qn, calls, nCalls, nExec, responses,
                   transcript, failed>>

\* a text block that never clears the flag
TextFlag_Never(resp, flag) == flag

\* lines 206-207: the flag after a text block
TextFlag(resp, flag) == IF Len(resp) = 1 THEN FALSE ELSE flag

\* a final text that is appended as the assistant's message
TextMessages_Appended(msgs, al, blocks, resp) ==
    IF Len(resp) = 1
    THEN Append(AppendAliased(msgs, al, blocks), AssistantMessage(blocks))
    ELSE AppendAliased(msgs, al, blocks)

\* what lines 203-207 leave in messages
TextMessages(msgs, al, blocks, resp) == AppendAliased(msgs, al, blocks)

\* lines 203-207: a text block
ForText ==
    /\ pc = "for"
    /\ idx <= Len(iter)
    /\ iter[idx].type = "text"
    /\ assistant_content' = Append(assistant_content, iter[idx])
    /\ messages' = TextMessages(messages, aliased, assistant_content', response)
    /\ process_query' = TextFlag(response, process_query)
    /\ idx' = idx + 1
    /\ UNCHANGED <<last, pc, aliased, response, iter, fs, err, qn, calls, nCalls, nExec,
                   responses, transcript, failed>>

\* a tool invocation run before its assistant message is appended
ToolUseMessages_NotAppended(msgs, al, blocks) == AppendAliased(msgs, al, blocks)

\* what lines 210-211 leave in messages
ToolUseMessages(msgs, al, blocks) ==
    Append(AppendAliased(msgs, al, blocks), AssistantMessage(blocks))

\* lines 209-216: a tool_use block is buffered and the assistant message appended
ForToolUse ==
    /\ pc = "for"
    /\ idx <= Len(iter)
    /\ iter[idx].type = "tool_use"
    /\ assistant_content' = Append(assistant_content, iter[idx])
    /\ messages' = ToolUseMessages(messages, aliased, assistant_content')
    /\ aliased' = aliased \cup {Len(messages')}
    /\ pc' = "exec"
    /\ UNCHANGED <<last, response, iter, idx, process_query, fs, err, qn, calls, nCalls,
                   nExec, responses, transcript, failed>>

\* what lines 219-228 leave in messages
\* a tool result that never reaches the history
ResultMessages_Dropped(msgs, tool_id, result) == msgs

ResultMessages(msgs, tool_id, result) == Append(msgs, ToolResultMessage(tool_id, result))

\* lines 218-228: the tool runs; its result is appended, or its exception
\* leaves process_query
ExecuteTool ==
    /\ pc = "exec"
    /\ nExec' = nExec + 1
    /\ \E prov \in ProviderOutcomes, order \in Orders(fs) :
         LET r == execute_tool(fs, iter[idx].name, iter[idx].input, prov, order)
         IN  /\ fs' = r.fs
             /\ IF r.raised = ""
                THEN /\ messages' = ResultMessages(messages, iter[idx].id, r.result)
                     /\ pc' = "call2"
                     /\ err' = err
                ELSE /\ messages' = messages
                     /\ pc' = "except"
                     /\ err' = r.raised
    /\ UNCHANGED <<last, aliased, response, iter, idx, assistant_content, process_query,
                   qn, calls, nCalls, responses, transcript, failed>>

\* a model call inside the loop that never clears the flag
FlagAfterCall_Never(r, flag) == flag

\* lines 237-239: the flag after the model call made inside the for loop
FlagAfterCall(r, flag) == IF SingleText(r) THEN FALSE ELSE flag

\* lines 230-239: the model is called again, inside the for loop
NextModelCall ==
    /\ pc = "call2"
    /\ calls < MaxCalls
    /\ calls' = calls + 1
    /\ nCalls' = nCalls + 1
    /\ \E r \in ModelResponses(calls + 1) :
         /\ response' = r
         /\ responses' = Append(responses, r)
         /\ process_query' = FlagAfterCall(r, process_query)
    /\ idx' = idx + 1
    /\ pc' = "for"
    /\ UNCHANGED <<last, messages, aliased, iter, assistant_content, fs, err, qn, nExec,
                   transcript, failed>>

\* an except clause that ends the session
AfterExcept_Exit == "exited"

\* where chat_loop goes after its except clause (lines 254-255, then 247)
AfterExcept == "prompt"

\* chat_loop, line 253: process_query has returned
Returned ==
    /\ pc = "returned"
    /\ pc' = "prompt"
    /\ transcript' = transcript \o messages
    /\ failed' = <<>>
    /\ DropLocals
    /\ UNCHANGED <<last, fs, err, qn, calls>>

\* chat_loop, lines 254-255: the exception is printed
Except ==
    /\ pc = "except"
    /\ pc' = AfterExcept
    /\ transcript' = transcript \o messages
    /\ failed' = Append(failed, err)
    /\ err' = ""
    /\ DropLocals
    /\ UNCHANGED <<last, fs, qn, calls>>

Next ==
    \/ ReadQuit
    \/ ReadQuery
    \/ FirstModelCall
    \/ ModelCallFails
    \/ WhileEnter
    \/ WhileExit
    \/ ForEnd
    \/ ForText
    \/ ForToolUse
    \/ ExecuteTool
    \/ NextModelCall
    \/ Returned
    \/ Except

Spec == Init /\ [][Next]_vars

\* the statements of process_query and of the shell around it: the thread
\* runs whenever it is not waiting for the user to type
Step ==
    \/ FirstModelCall
    \/ ModelCallFails
    \/ WhileEnter
    \/ WhileExit
    \/ ForEnd
    \/ ForText
    \/ ForToolUse
    \/ ExecuteTool
    \/ NextModelCall
    \/ Returned
    \/ Except

FairSpec == Spec /\ WF_vars(Step)

-----------------------------------------------------------------------------
(* The tools called directly, on any papers/ tree *)

\* topics, identifiers and records of the calls made on the tools directly
StoreTopics == { <<"A", " ", "i">>, <<"b">> }
StoreIds == { <<"p1">>, <<"p2">> }
StoreRecords == { "r1", "r2" }

StorePapers == [id : StoreIds, rec : StoreRecords]

StoreOutcomes == [papers : SeqsUpTo(StorePapers, MaxResults), fails : BOOLEAN]

StoreKeys == { Normalize(t) : t \in StoreTopics }

\* what a papers_info.json may hold
Maps == UNION { [S -> StoreRecords] : S \in SUBSET StoreIds }

\* a topic directory: absent, without its file, with a file that does not
\* parse, or with a file holding a mapping
DirStates ==
    {NoDir}
    \cup {[exists |-> TRUE, file |-> x, info |-> <<>>] : x \in {"none", "bad"}}
    \cup {[exists |-> TRUE, file |-> "json", info |-> m] : m \in Maps}

\* the papers/ trees a call may find, whoever made them
AllStores ==
    { f \in [root : BOOLEAN, dirs : [StoreKeys -> DirStates]] :
        (\E k \in StoreKeys : f.dirs[k].exists) => f.root }

StoreInit ==
    /\ pc = "tools"
    /\ messages = <<>>
    /\ aliased = {}
    /\ response = <<>>
    /\ iter = <<>>
    /\ idx = 1
    /\ assistant_content = <<>>
    /\ process_query = FALSE
    /\ fs \in AllStores
    /\ err = ""
    /\ qn = 0
    /\ calls = 0
    /\ nCalls = 0
    /\ nExec = 0
    /\ responses = <<>>
    /\ transcript = <<>>
    /\ failed = <<>>
    /\ last = NoCall

\* execute_tool('search_papers', {'topic': topic}), lines 160-179 and 34-83
CallSearch ==
    /\ pc = "tools"
    /\ \E topic \in StoreTopics, prov \in StoreOutcomes :
         LET args == [arg |-> "topic", val |-> topic]
             r == execute_tool(fs, "search_papers", args, prov, <<>>)
         IN  /\ fs' = r.fs
             /\ last' = [name |-> "search_papers", args |-> args, prov |-> prov,
                         order |-> <<>>, raised |-> r.raised, result |-> r.result,
                         again |-> /\ last.name = "search_papers"
                                   /\ last.raised = ""
                                   /\ last.args = args]
    /\ UNCHANGED <<pc, messages, aliased, response, iter, idx, assistant_content,
                   process_query, err, qn, calls, nCalls, nExec, responses,
                   transcript, failed>>

\* execute_tool('extract_info', {'paper_id': paper_id}), lines 160-179 and 86-110
CallExtract ==
    /\ pc = "tools"
    /\ \E paper_id \in StoreIds, order \in Orders(fs) :
         LET args == [arg |-> "paper_id", val |-> paper_id]
             r == execute_tool(fs, "extract_info", args, NoCall.prov, order)
         IN  /\ fs' = r.fs
             /\ last' = [name |-> "extract_info", args |-> args, prov |-> NoCall.prov,
                         order |-> order, raised |-> r.raised, result |-> r.result,
                         again |-> FALSE]
    /\ UNCHANGED <<pc, messages, aliased, response, iter, idx, assistant_content,
                   process_query, err, qn, calls, nCalls, nExec, responses,
                   transcript, failed>>

StoreNext == CallSearch \/ CallExtract

StoreSpec == StoreInit /\ [][StoreNext]_vars

-----------------------------------------------------------------------------
(* Properties *)

ToolUses(blocks) == { blocks[k] : k \in { j \in DOMAIN blocks : blocks[j].type = "tool_use" } }

HoldsInvocation(m, id) ==
    /\ m.role = "assistant"
    /\ \E n \in DOMAIN m.content :
          m.content[n].type = "tool_use" /\ m.content[n].id = id

IsResultFor(m, id) ==
    /\ m.role = "user"
    /\ Len(m.content) = 1
    /\ m.content[1].type = "tool_result"
    /\ m.content[1].tool_use_id = id

NumResults(msgs) ==
    Cardinality({ i \in DOMAIN msgs : msgs[i].content[1].type = "tool_result" })

NumAssistant(msgs) ==
    Cardinality({ i \in DOMAIN msgs : msgs[i].role = "assistant" })

AtModelCall == pc \in {"call1", "call2"}

InLoop == pc \in {"while", "for", "exec", "call2"}

\* C1: at every model call, every assistant message of the history being
\* sent that holds a tool invocation with id i is immediately followed by the
\* tool-result message with tool_use_id i.
C1_InvocationsAnswered ==
    AtModelCall =>
        \A i \in DOMAIN messages :
            messages[i].role = "assistant" =>
                \A b \in ToolUses(messages[i].content) :
                    /\ i < Len(messages)
                    /\ IsResultFor(messages[i + 1], b.id)

\* C2: a model call is issued from inside the loop only once every tool
\* invocation of the response being iterated has been executed: none is left
\* after the block the loop is at.
C2_CallAfterAllTools ==
    [][(pc = "call2" /\ calls' = calls + 1) =>
          \A k \in (idx + 1)..Len(iter) : iter[k].type # "tool_use"]_vars

\* C3: process_query returns normally only when the response received last
\* is a single text block.
C3_ReturnsOnSingleText == pc = "returned" => SingleText(response)

\* C4: after every response that is not a single text block, process_query
\* issues another model call (unless a tool raised).
C4_AnotherCall ==
    \A n \in 1..(MaxCalls - 1) :
        (calls = n /\ InLoop /\ ~SingleText(response))
            ~> (calls > n \/ pc = "except")

\* C5 as claimed: from the second query on, the history of the first model
\* call is the messages of the earlier queries followed by the new user message.
C5_HistoryPersists ==
    (pc = "call1" /\ qn >= 2) =>
        /\ Len(messages) = Len(transcript) + 1
        /\ SubSeq(messages, 1, Len(transcript)) = transcript
        /\ messages[Len(messages)].content[1].type = "str"

\* C5 as amended: the history of the first model call of every query is the
\* new user message alone.
C5_HistoryStartsAfresh ==
    pc = "call1" =>
        /\ Len(messages) = 1
        /\ messages[1].role = "user"
        /\ messages[1].content[1].type = "str"

C5_Witness == pc = "call1" /\ qn >= 2 /\ Len(transcript) >= 2

\* C6 as claimed: when process_query is done after a single text block, the
\* history ends with that text as an assistant message.
C6_FinalTextAppended ==
    (pc = "returned" /\ SingleText(response)) =>
        messages[Len(messages)] = AssistantMessage(response)

\* C6 as amended: when process_query is done, the final response is not in
\* the history: it ends with a user message (the query or the last tool
\* result) and holds one assistant message for each tool executed.
C6_FinalTextNotAppended ==
    pc = "returned" =>
        /\ messages[Len(messages)].role = "user"
        /\ NumAssistant(messages) = nExec

C6_Witness ==
    /\ pc = "returned"
    /\ SingleText(response)
    /\ nExec = 1
    /\ Len(messages) = 3

\* C7: a tool-result message with tool_use_id i comes after an assistant
\* message that holds the invocation i, and when execute_tool is about to be
\* called the assistant message holding the invocation is the last message.
C7_InvocationPrecedesResult ==
    /\ \A j \in DOMAIN messages :
          messages[j].content[1].type = "tool_result" =>
              \E k \in 1..(j - 1) :
                  HoldsInvocation(messages[k], messages[j].content[1].tool_use_id)
    /\ pc = "exec" =>
          /\ iter[idx].type = "tool_use"
          /\ HoldsInvocation(messages[Len(messages)], iter[idx].id)

C7_Witness ==
    /\ pc = "call2"
    /\ NumResults(messages) = 1
    /\ IsResultFor(messages[Len(messages)], iter[idx].id)

\* the first response is text blocks and then one tool invocation
TextsThenOneTool(r) ==
    /\ Len(r) >= 1
    /\ r[Len(r)].type = "tool_use"
    /\ \A k \in 1..(Len(r) - 1) : r[k].type = "text"

Run8 ==
    /\ Len(responses) >= 2
    /\ TextsThenOneTool(responses[1])
    /\ SingleText(responses[2])

\* C8: a run whose first response is one tool invocation (after optional
\* text) and whose second response is a single text block executes one tool,
\* appends one tool result, issues two model calls and then leaves the loop.
C8_OneToolTwoCalls ==
    Run8 =>
        /\ nExec = 1
        /\ NumResults(messages) = 1
        /\ nCalls = 2
        /\ pc \in {"for", "while", "returned"}
        /\ pc = "while" => ~process_query

C8_Witness == Run8 /\ pc = "returned" /\ Len(responses[1]) = 2

Run9 == Len(responses) >= 1 /\ SingleText(responses[1])

\* C9: a run whose first response is a single text block makes one model
\* call, executes no tool, appends no tool result, and leaves the loop after
\* one pass over the response.
C9_SingleTextOneCall ==
    Run9 =>
        /\ nCalls = 1
        /\ nExec = 0
        /\ NumResults(messages) = 0
        /\ pc \in {"for", "while", "returned"}
        /\ (pc = "while" /\ iter # <<>>) => ~process_query

C9_Witness == Run9 /\ pc = "returned"

ToolErrors == {"KeyError", "TypeError", "ProviderError", "FileNotFoundError"}

\* C10: an unregistered tool name raises; a tool that raises leaves
\* process_query with no tool result appended and no model call; chat_loop
\* then goes back to the prompt, with no further call or execution for the
\* query.
C10_ErrorEscapesToShell ==
    [][/\ (pc = "exec" /\ iter[idx].name \notin ToolNames) => pc' = "except"
       /\ (pc = "exec" /\ pc' = "except") =>
              /\ err' \in ToolErrors
              /\ messages' = messages
              /\ calls' = calls
       /\ pc = "except" =>
              /\ pc' = "prompt"
              /\ calls' = calls
              /\ fs' = fs]_vars

C10_Witness ==
    /\ pc = "prompt"
    /\ Len(failed) >= 2
    /\ \A i \in DOMAIN failed : failed[i] \in ToolErrors
    /\ \E i \in DOMAIN failed : failed[i] = "KeyError"

-----------------------------------------------------------------------------
(* Properties of the tools *)

IdsOf(papers) == { papers[i].id : i \in DOMAIN papers }

\* the record of the last paper of the result set that carries the identifier
RecordOf(papers, id) ==
    papers[CHOOSE i \in DOMAIN papers :
              /\ papers[i].id = id
              /\ \A j \in DOMAIN papers : papers[j].id = id => j <= i].rec

Saved(call) == call.name = "search_papers" /\ call.raised = ""

Looked(call) == call.name = "extract_info"

\* the topic directories whose file holds the identifier
Holders(f, id) ==
    { k \in DOMAIN f.dirs :
        f.dirs[k].exists /\ f.dirs[k].file = "json" /\ id \in DOMAIN f.dirs[k].info }

\* C11: a lookup made right after a save, of an identifier of the saved
\* result set, returns the serialized record just saved for it, whatever the
\* other topic stores hold.
C11_RoundTrip ==
    [][(Saved(last) /\ Looked(last') /\ last'.args.val \in IdsOf(last.prov.papers)) =>
          /\ last'.raised = ""
          /\ last'.result = Dumps(RecordOf(last.prov.papers, last'.args.val))]_vars

\* the identifier is in no topic store
InNoStore(f, id) == Holders(f, id) = {}

\* C12: a lookup of an identifier that no store holds returns the not-found
\* message and does not raise, whatever the papers/ tree is, also when the
\* papers directory does not exist.
C12_NotFoundNeverRaises ==
    (Looked(last) /\ InNoStore(fs, last.args.val)) =>
        /\ last.raised = ""
        /\ last.result = NotFoundMessage(last.args.val)

\* C13: execute_tool returns the placeholder sentence when search_papers
\* returns an empty sequence, and the identifiers joined by ', ' otherwise.
C13_EmptyResultPlaceholder ==
    Saved(last) =>
        last.result =
            IF last.prov.papers = <<>> THEN Placeholder
            ELSE Join([i \in DOMAIN last.prov.papers |-> last.prov.papers[i].id])

StoreOf(f, topic) == f.dirs[Normalize(topic)]

\* C14: after two successive saves under one topic, of R1 and then R2, every
\* identifier of R2 maps to its R2 record and every identifier of R1 that is
\* not in R2 still maps to its R1 record.
C14_SecondSaveOverrides ==
    [][(Saved(last) /\ Saved(last') /\ last'.again) =>
          LET R1 == last.prov.papers
              R2 == last'.prov.papers
              store == StoreOf(fs', last'.args.val)
          IN  /\ store.file = "json"
              /\ IdsOf(R1) \cup IdsOf(R2) \subseteq DOMAIN store.info
              /\ \A id \in IdsOf(R2) : store.info[id] = RecordOf(R2, id)
              /\ \A id \in IdsOf(R1) \ IdsOf(R2) : store.info[id] = RecordOf(R1, id)]_vars

C14_Witness ==
    /\ Saved(last)
    /\ last.again
    /\ last.prov.papers # <<>>
    /\ DOMAIN StoreOf(fs, last.args.val).info \ IdsOf(last.prov.papers) # {}

\* the directory name is the topic lower-cased with its spaces replaced by
\* underscores
IsNormalFormOf(key, topic) ==
    /\ Len(key) = Len(topic)
    /\ \A i \in DOMAIN topic :
          key[i] = CASE topic[i] = " " -> "_"
                     [] topic[i] = "A" -> "a"
                     [] OTHER -> topic[i]

\* C15: a successful execute_tool('search_papers', {topic: T}) leaves the
\* file of the normalized form of T written, and every other topic
\* directory as it was.
C15_OneTopicFile ==
    [][Saved(last') =>
          \E k \in DOMAIN fs.dirs :
              /\ IsNormalFormOf(k, last'.args.val)
              /\ fs'.dirs[k].exists
              /\ fs'.dirs[k].file = "json"
              /\ \A j \in DOMAIN fs.dirs \ {k} : fs'.dirs[j] = fs.dirs[j]]_vars

C15_Witness ==
    /\ Saved(last)
    /\ last.args.val = <<"A", " ", "i">>
    /\ last.prov.papers # <<>>
    /\ fs.dirs[<<"b">>].file = "json"
    /\ DOMAIN fs.dirs[<<"b">>].info = StoreIds
    /\ DOMAIN fs.dirs[<<"a", "_", "i">>].info = IdsOf(last.prov.papers)

\* the existing topic directories whose file is missing or does not parse
BadDirs(f) == { k \in DOMAIN f.dirs : f.dirs[k].exists /\ f.dirs[k].file \in {"none", "bad"} }

\* C16: with a topic directory whose file is missing or unparseable and
\* another whose file holds the identifier, a lookup returns a held record,
\* under every enumeration order of the directories.
C16_BadDirectorySkipped ==
    (Looked(last) /\ BadDirs(fs) # {} /\ Holders(fs, last.args.val) # {}) =>
        /\ last.raised = ""
        /\ last.result \in { Dumps(fs.dirs[k].info[last.args.val]) :
                                k \in Holders(fs, last.args.val) }

C16_Witness ==
    /\ Looked(last)
    /\ last.order # <<>>
    /\ fs.dirs[last.order[1]].exists
    /\ fs.dirs[last.order[1]].file = "bad"
    /\ Holders(fs, last.args.val) # {}
    /\ last.result # NotFoundMessage(last.args.val)

\* C17: no call of search_papers, successful or failing, and no call of
\* extract_info removes an identifier from a topic store.
C17_NeverDeleted ==
    [][\A k \in DOMAIN fs.dirs :
          (fs.dirs[k].exists /\ fs.dirs[k].file = "json") =>
              /\ fs'.dirs[k].exists
              /\ fs'.dirs[k].file = "json"
              /\ DOMAIN fs.dirs[k].info \subseteq DOMAIN fs'.dirs[k].info]_vars

C17_Witness ==
    /\ Saved(last)
    /\ ~last.again
    /\ Len(last.prov.papers) = 1
    /\ DOMAIN StoreOf(fs, last.args.val).info = StoreIds
    /\ \E k \in DOMAIN fs.dirs : fs.dirs[k].exists /\ fs.dirs[k].file = "bad"

\* the call was a search in which the provider failed
Failed(call) == call.name = "search_papers" /\ call.raised = "ProviderError"

\* C18: a search in which the provider fails leaves the file and the stored
\* mapping of every topic as they were; only the topic's empty directory may
\* have been created.
C18_NoPartialWrite ==
    [][Failed(last') =>
          \E key \in DOMAIN fs.dirs :
              /\ IsNormalFormOf(key, last'.args.val)
              /\ fs'.dirs[key].exists
              /\ fs'.dirs[key].file = fs.dirs[key].file
              /\ fs'.dirs[key].info = fs.dirs[key].info
              /\ \A j \in DOMAIN fs.dirs \ {key} : fs'.dirs[j] = fs.dirs[j]]_vars

C18_Witness ==
    /\ Failed(last)
    /\ last.prov.papers # <<>>
    /\ StoreOf(fs, last.args.val).exists
    /\ StoreOf(fs, last.args.val).file = "none"

\* C19: a call of extract_info leaves the papers tree as it was, whether the
\* identifier is found, not found, or a store does not parse.
C19_LookupReadOnly ==
    [][Looked(last') => fs' = fs]_vars

C19_Witness ==
    /\ Looked(last)
    /\ last.raised = ""
    /\ last.result = NotFoundMessage(last.args.val)
    /\ \E k \in DOMAIN fs.dirs : fs.dirs[k].exists /\ fs.dirs[k].file = "bad"
    /\ \E k \in DOMAIN fs.dirs : fs.dirs[k].exists /\ fs.dirs[k].file = "json"

\* the roles strictly alternate, starting and ending with user
Alternates(msgs) ==
    /\ msgs # <<>>
    /\ \A i \in DOMAIN msgs :
          msgs[i].role = IF i % 2 = 1 THEN "user" ELSE "assistant"
    /\ msgs[Len(msgs)].role = "user"

\* C20: at every model call of process_query the history being sent starts
\* with a user message, its roles strictly alternate, and it ends with a
\* user message.
C20_RolesAlternate ==
    AtModelCall => Alternates(messages)

C20_Witness ==
    /\ pc = "call2"
    /\ Len(messages) = 5
    /\ nCalls >= 2

====
